---- MODULE Spec2Model ----
(***************************************************************************)
(* Model of split_csv_by_col.py: CsvSplitter.run and its helpers.          *)
(*                                                                         *)
(* Text is modelled as sequences of one-character strings, a CSV row as a  *)
(* sequence of fields, a file as a sequence of rows.  A Python value that  *)
(* may be None is a sequence of length 0 (None) or 1 (the value).          *)
(* One input line is one CSV record (no quoted line breaks), so the index  *)
(* of a row in in_file is its 1-based line number in the input file.       *)
(* A file's content is what has been written through its handles; output   *)
(* buffering and I/O errors are not modelled.                              *)
(***************************************************************************)
EXTENDS Integers, Sequences, FiniteSets, TLC

\* ------------------------------------------------------------------ bounds
\* Largest number of data rows in the input file.
MaxRows == 4
\* Largest configured column index; a full row has this many fields.
MaxColumn == 2

\* ------------------------------------------------------------ input space
\* Group keys of the inputs: a plain key, the empty key, and a key made only
\* of a character the sanitizer removes (so it shares its file with "").
Keys == { <<"A">>, <<>>, <<"/">> }

\* Marks, in a key sequence, a row that has no field at the chosen column.
NoField == <<"<", ">">>

\* The other fields of the row on line n: its line number, as text.
Payload(n) == << ToString(n) >>

\* The row on input line n for key k: k at the chosen column and the payload
\* elsewhere; for NoField a row of col - 1 fields.
MkRow(col, k, n) ==
    IF k = NoField
    THEN [i \in 1..(col - 1) |-> Payload(n)]
    ELSE [i \in 1..MaxColumn |-> IF i = col THEN k ELSE Payload(n)]

\* The header line of an input file that has one.
HeaderRow == [i \in 1..MaxColumn |-> <<"h">>]

KeySeqs == UNION { [1..n -> Keys \cup {NoField}] : n \in 0..MaxRows }

\* ------------------------------------------------------------- parameters
OutputStub == <<"o", "-">>
OutputSuffix == <<".", "t", "s", "v">>

\* ---------------------------------------------------------- pure helpers
\* The characters the sanitizer keeps: [0-9a-zA-Z_.\-].
SafeChars ==
    { "0", "1", "2", "3", "4", "5", "6", "7", "8", "9",
      "a", "b", "c", "d", "e", "f", "g", "h", "i", "j", "k", "l", "m",
      "n", "o", "p", "q", "r", "s", "t", "u", "v", "w", "x", "y", "z",
      "A", "B", "C", "D", "E", "F", "G", "H", "I", "J", "K", "L", "M",
      "N", "O", "P", "Q", "R", "S", "T", "U", "V", "W", "X", "Y", "Z",
      "_", ".", "-" }

IsSafeChar(c) == c \in SafeChars

protect_filename(column_text) == SelectSeq(column_text, IsSafeChar)

get_output_filename(output_stub, unique_field, suffix) ==
    output_stub \o unique_field \o suffix

\* The destination of a group key.
OutFile(field) ==
    get_output_filename(OutputStub, protect_filename(field), OutputSuffix)

\* Python's None, and a value that is not None.
None == << >>
Some(x) == << x >>

\* Python truthiness of an optional string or list: not None and not empty.
Truthy(opt) == opt # None /\ opt[1] # << >>

RECURSIVE SumOver(_, _)
SumOver(f, S) ==
    IF S = {} THEN 0
    ELSE LET x == CHOOSE y \in S : TRUE
         IN f[x] + SumOver(f, S \ {x})

\* sum(d.values()) of a dict of counts.
SumValues(d) == SumOver(d, DOMAIN d)

EmptyDict == [k \in {} |-> 0]

\* ------------------------------------------------------------------ state
VARIABLES
    in_file,            \* the lines of the input file, as rows
    column,             \* self.column
    use_headers,        \* self.use_headers
    force,              \* self.force
    pc,                 \* position in CsvSplitter.run
    in_pos,             \* number of lines in_reader has consumed
    line_count,         \* the loop's enumerate counter
    cols,               \* the row of the current iteration
    current_field,      \* the local current_field (None before the loop)
    headers,            \* self._headers
    last_field,         \* self._last_field
    records_by_field,   \* self._records_by_field
    out_fh,             \* self._out_fh: 0 for None, else an index of handles
    handles,            \* every file object opened for writing, in order
    fs,                 \* the output files: name -> rows
    msgs,               \* what click.echo has printed, in order
    err                 \* the exception run has raised, or None

vars == << in_file, column, use_headers, force, pc, in_pos, line_count, cols,
           current_field, headers, last_field, records_by_field, out_fh,
           handles, fs, msgs, err >>

config == << in_file, column, use_headers, force >>

Msg(kind, field, n, m, file) ==
    [kind |-> kind, field |-> field, n |-> n, m |-> m, file |-> file]

Exc(kind, field, line) == [kind |-> kind, field |-> field, line |-> line]

\* ------------------------------------------------------------------- init
\* The possible first lines of the input: with header-use enabled a header
\* row or a blank line; an empty file has neither.
Init ==
    /\ column \in 1..MaxColumn
    /\ use_headers \in BOOLEAN
    /\ force \in BOOLEAN
    /\ \E ks \in KeySeqs :
         \E hdr \in IF use_headers
                    THEN { <<HeaderRow>>, << << >> >> } \cup
                         (IF ks = << >> THEN { << >> } ELSE {})
                    ELSE { << >> } :
            in_file = hdr \o [i \in 1..Len(ks) |->
                                 MkRow(column, ks[i], Len(hdr) + i)]
    /\ pc = "start"
    /\ in_pos = 0
    /\ line_count = 0
    /\ cols = << >>
    /\ current_field = None
    /\ headers = None
    /\ last_field = None
    /\ records_by_field = EmptyDict
    /\ out_fh = 0
    /\ handles = << >>
    /\ fs = EmptyDict
    /\ msgs = << >>
    /\ err = None

\* ------------------------------------------------- statements of the code
\* Faulty variant of AlreadySeen: the membership test always answers no.
AlreadySeen_Never(field) == FALSE

\* Line 123: current_field in self._records_by_field.
AlreadySeen(field) == field \in DOMAIN records_by_field

\* Faulty variant of ClosedHandles: the handle is not closed.
ClosedHandles_Unchanged == handles

\* Lines 154-155: the handles after "if self._out_fh: self._out_fh.close()";
\* closing a closed file object does nothing.
ClosedHandles ==
    IF out_fh # 0 THEN [handles EXCEPT ![out_fh].open = FALSE] ELSE handles

\* Faulty variant of OpenForWriting: mode "a", which keeps an existing file.
OpenForAppending(files, out_file) ==
    IF out_file \in DOMAIN files THEN files ELSE (out_file :> << >>) @@ files

\* Line 165: open(out_file, "w") creates the file or truncates it.
OpenForWriting(files, out_file) == (out_file :> << >>) @@ files

\* Faulty variant of InitialCounts: the count restarts at 0 on every open.
InitialCounts_Reset(field) == (field :> 0) @@ records_by_field

\* Lines 168-169: a field not seen before gets a count of 0.
InitialCounts(field) ==
    IF field \notin DOMAIN records_by_field
    THEN (field :> 0) @@ records_by_field
    ELSE records_by_field

\* Faulty variant of HeaderLines: no header is ever written.
HeaderLines_None(field) == << >>

\* Faulty variant of HeaderLines: the header is written on every open.
HeaderLines_Always(field) ==
    IF use_headers /\ Truthy(headers) THEN << headers[1] >> ELSE << >>

\* Lines 168-171: what init_output_file writes to the file it has opened:
\* the header row, for a field not seen before, when headers are in use and
\* the header row is truthy.
HeaderLines(field) ==
    IF field \notin DOMAIN records_by_field /\ use_headers /\ Truthy(headers)
    THEN << headers[1] >>
    ELSE << >>

\* Faulty variant of Counted: the count is not incremented.
Counted_Not(field) == records_by_field

\* Line 134: self._records_by_field[current_field] += 1.
Counted(field) == [records_by_field EXCEPT ![field] = @ + 1]

\* Faulty variant of NewLastField: self._last_field is not updated.
NewLastField_Stale == last_field

\* Line 138: the value self._last_field takes after a row.
NewLastField == current_field

\* Faulty variant of Start: the header line is kept but left in the reader,
\* so the loop reads it again as the first data row.
Start_HeaderNotConsumed ==
    /\ pc = "start"
    /\ IF use_headers /\ in_file = << >>
       THEN /\ err' = Some(Exc("StopIteration", << >>, 0))
            /\ pc' = "failed"
            /\ UNCHANGED << headers, in_pos >>
       ELSE /\ headers' = IF use_headers THEN Some(in_file[1]) ELSE None
            /\ in_pos' = 0
            /\ pc' = "loop"
            /\ err' = err
    /\ current_field' = None
    /\ UNCHANGED << config, line_count, cols, last_field, records_by_field,
                    out_fh, handles, fs, msgs >>

\* ---------------------------------------------------------------- actions
\* run, lines 112-117: open the input and, with header-use enabled, take its
\* first line as the header; next() on an empty file raises StopIteration.
Start ==
    /\ pc = "start"
    /\ IF use_headers /\ in_file = << >>
       THEN /\ err' = Some(Exc("StopIteration", << >>, 0))
            /\ pc' = "failed"
            /\ UNCHANGED << headers, in_pos >>
       ELSE /\ headers' = IF use_headers THEN Some(in_file[1]) ELSE None
            /\ in_pos' = IF use_headers THEN 1 ELSE 0
            /\ pc' = "loop"
            /\ err' = err
    /\ current_field' = None
    /\ UNCHANGED << config, line_count, cols, last_field, records_by_field,
                    out_fh, handles, fs, msgs >>

\* run, lines 118-119: the reader yields the next row, which has a field at
\* the chosen column.
ReadRow ==
    /\ pc = "loop"
    /\ in_pos < Len(in_file)
    /\ Len(in_file[in_pos + 1]) >= column
    /\ in_pos' = in_pos + 1
    /\ line_count' = line_count + 1
    /\ cols' = in_file[in_pos + 1]
    /\ current_field' = Some(in_file[in_pos + 1][column])
    /\ pc' = "check"
    /\ UNCHANGED << config, headers, last_field, records_by_field, out_fh,
                    handles, fs, msgs, err >>

\* Faulty variant of ReadShortRow: the short row is skipped and the loop
\* goes on.
ReadShortRow_Skip ==
    /\ pc = "loop"
    /\ in_pos < Len(in_file)
    /\ Len(in_file[in_pos + 1]) < column
    /\ in_pos' = in_pos + 1
    /\ line_count' = line_count + 1
    /\ cols' = in_file[in_pos + 1]
    /\ pc' = "loop"
    /\ UNCHANGED << config, current_field, headers, last_field,
                    records_by_field, out_fh, handles, fs, msgs, err >>

\* run, lines 118-119: the next row is shorter than the column index, and
\* cols[self.column - 1] raises IndexError.
ReadShortRow ==
    /\ pc = "loop"
    /\ in_pos < Len(in_file)
    /\ Len(in_file[in_pos + 1]) < column
    /\ in_pos' = in_pos + 1
    /\ line_count' = line_count + 1
    /\ cols' = in_file[in_pos + 1]
    /\ err' = Some(Exc("IndexError", << >>, line_count + 1))
    /\ pc' = "failed"
    /\ UNCHANGED << config, current_field, headers, last_field,
                    records_by_field, out_fh, handles, fs, msgs >>

\* run, line 118: the reader is exhausted and the loop ends.
EndOfInput ==
    /\ pc = "loop"
    /\ in_pos = Len(in_file)
    /\ pc' = "final_close"
    /\ UNCHANGED << config, in_pos, line_count, cols, current_field, headers,
                    last_field, records_by_field, out_fh, handles, fs, msgs,
                    err >>

\* Faulty variant of CheckField: with force, a field seen before is warned
\* about and written without a switch of file.
CheckField_ForceSkipsSwitch ==
    /\ pc = "check"
    /\ IF current_field = last_field
       THEN /\ pc' = "count"
            /\ UNCHANGED << msgs, err >>
       ELSE IF AlreadySeen(current_field[1])
            THEN IF force
                 THEN /\ msgs' = Append(msgs, Msg("seen", current_field[1],
                                                  line_count, 0, << >>))
                      /\ pc' = "count"
                      /\ err' = err
                 ELSE /\ err' = Some(Exc("KeyError", current_field[1],
                                         line_count))
                      /\ pc' = "failed"
                      /\ msgs' = msgs
            ELSE /\ pc' = "close"
                 /\ UNCHANGED << msgs, err >>
    /\ UNCHANGED << config, in_pos, line_count, cols, current_field, headers,
                    last_field, records_by_field, out_fh, handles, fs >>

\* Faulty variant of CheckField: the file of the last group is closed before
\* the field is looked up, so also before the error is raised.
CheckField_ClosesFirst ==
    /\ pc = "check"
    /\ IF current_field = last_field
       THEN /\ pc' = "count"
            /\ UNCHANGED << msgs, err, handles >>
       ELSE IF AlreadySeen(current_field[1])
            THEN IF force
                 THEN /\ msgs' = Append(msgs, Msg("seen", current_field[1],
                                                  line_count, 0, << >>))
                      /\ pc' = "close"
                      /\ UNCHANGED << err, handles >>
                 ELSE /\ err' = Some(Exc("KeyError", current_field[1],
                                         line_count))
                      /\ pc' = "failed"
                      /\ msgs' = msgs
                      /\ handles' = ClosedHandles
            ELSE /\ pc' = "close"
                 /\ UNCHANGED << msgs, err, handles >>
    /\ UNCHANGED << config, in_pos, line_count, cols, current_field, headers,
                    last_field, records_by_field, out_fh, fs >>

\* run, lines 122-128: a field equal to the last one continues its group; a
\* different one that was seen before is an error, or with force a warning.
CheckField ==
    /\ pc = "check"
    /\ IF current_field = last_field
       THEN /\ pc' = "count"
            /\ UNCHANGED << msgs, err >>
       ELSE IF AlreadySeen(current_field[1])
            THEN IF force
                 THEN /\ msgs' = Append(msgs, Msg("seen", current_field[1],
                                                  line_count, 0, << >>))
                      /\ pc' = "close"
                      /\ err' = err
                 ELSE /\ err' = Some(Exc("KeyError", current_field[1],
                                         line_count))
                      /\ pc' = "failed"
                      /\ msgs' = msgs
            ELSE /\ pc' = "close"
                 /\ UNCHANGED << msgs, err >>
    /\ UNCHANGED << config, in_pos, line_count, cols, current_field, headers,
                    last_field, records_by_field, out_fh, handles, fs >>

\* close_output_file, lines 148-155: report the last group if its key is
\* truthy, and close the handle if there is one (closing twice is harmless).
close_output_file ==
    /\ msgs' = IF Truthy(last_field)
               THEN Append(msgs, Msg("wrote", last_field[1],
                                     records_by_field[last_field[1]], 0,
                                     << >>))
               ELSE msgs
    /\ handles' = ClosedHandles

\* run, line 130: the close on a switch of group.
SwitchClose ==
    /\ pc = "close"
    /\ close_output_file
    /\ pc' = "init"
    /\ UNCHANGED << config, in_pos, line_count, cols, current_field, headers,
                    last_field, records_by_field, out_fh, fs, err >>

\* init_output_file, lines 157-171, called at line 132: open (create or
\* truncate) the key's destination; a key not seen before gets a count of 0
\* and, with header-use enabled and a truthy header, the header row.
init_output_file ==
    /\ pc = "init"
    /\ LET field == current_field[1]
           out_file == OutFile(field)
       IN /\ msgs' = Append(msgs, Msg("writing", field, 0, 0, out_file))
          /\ handles' = Append(handles, [name |-> out_file, key |-> field,
                                         open |-> TRUE])
          /\ out_fh' = Len(handles) + 1
          /\ records_by_field' = InitialCounts(field)
          /\ fs' = [OpenForWriting(fs, out_file)
                       EXCEPT ![out_file] = @ \o HeaderLines(field)]
    /\ pc' = "count"
    /\ UNCHANGED << config, in_pos, line_count, cols, current_field, headers,
                    last_field, err >>

\* run, lines 134-138: count the row, write it through the current writer,
\* remember its field.  Writing to a closed or missing handle raises.
WriteRow ==
    /\ pc = "count"
    /\ records_by_field' = Counted(current_field[1])
    /\ IF out_fh # 0 /\ handles[out_fh].open
       THEN /\ fs' = [fs EXCEPT ![handles[out_fh].name] = Append(@, cols)]
            /\ last_field' = NewLastField
            /\ pc' = "loop"
            /\ err' = err
       ELSE /\ err' = Some(Exc("ValueError", current_field[1], line_count))
            /\ pc' = "failed"
            /\ UNCHANGED << fs, last_field >>
    /\ UNCHANGED << config, in_pos, line_count, cols, current_field, headers,
                    out_fh, handles, msgs >>

\* run, line 140: the close after the loop.
FinalClose ==
    /\ pc = "final_close"
    /\ close_output_file
    /\ pc' = "summary"
    /\ UNCHANGED << config, in_pos, line_count, cols, current_field, headers,
                    last_field, records_by_field, out_fh, fs, err >>

\* run, lines 142-146: the final summary.
Summary ==
    /\ pc = "summary"
    /\ msgs' = msgs \o
          << Msg("total", << >>, SumValues(records_by_field),
                 Cardinality(DOMAIN records_by_field), << >>),
             Msg("done", << >>, 0, 0, << >>) >>
    /\ pc' = "done"
    /\ UNCHANGED << config, in_pos, line_count, cols, current_field, headers,
                    last_field, records_by_field, out_fh, handles, fs, err >>

Next ==
    \/ Start
    \/ ReadRow
    \/ ReadShortRow
    \/ EndOfInput
    \/ CheckField
    \/ SwitchClose
    \/ init_output_file
    \/ WriteRow
    \/ FinalClose
    \/ Summary

Spec == Init /\ [][Next]_vars

\* =================================================================== claims
\* Vocabulary of the claims, read off the input alone.

\* Number of header lines consumed, and number of data rows of the input.
Hdr == IF use_headers THEN 1 ELSE 0
NData == IF Len(in_file) >= Hdr THEN Len(in_file) - Hdr ELSE 0

\* The i-th data row, whether it has a group key, and its group key.
DataRow(i) == in_file[Hdr + i]
HasKey(i) == Len(DataRow(i)) >= column
KeyOf(i) == DataRow(i)[column]
AllKeyed(n) == \A i \in 1..n : HasKey(i)

\* Data row i has a key that differs from the key of the row before it and
\* equals the key of some earlier row (rows 1..i all have keys).
Resumes(i) ==
    /\ i > 1
    /\ KeyOf(i) # KeyOf(i - 1)
    /\ \E j \in 1..(i - 1) : KeyOf(j) = KeyOf(i)

\* Data row i is the first such row, and every row up to it has a key.
IsFirstOutOfOrder(i) ==
    /\ i \in 1..NData
    /\ AllKeyed(i)
    /\ Resumes(i)
    /\ \A j \in 1..(i - 1) : ~Resumes(j)

\* Every row has a key and rows with equal keys are contiguous.
PreSorted == AllKeyed(NData) /\ \A i \in 1..NData : ~Resumes(i)

\* The data rows s..e of the input, as a sequence.
Rows(s, e) == [i \in 1..(e - s + 1) |-> DataRow(s + i - 1)]

\* Whether a row occurs in some output file.
Written(row) ==
    \E f \in DOMAIN fs : \E i \in 1..Len(fs[f]) : fs[f][i] = row

Failed(kind) == pc = "failed" /\ err # None /\ err[1].kind = kind

\* C1: in default mode, when data row i is the first row whose key differs
\* from the preceding row's key and has been seen before (all rows up to it
\* having a key), the run never gets past row i, fails only there, with the
\* out-of-order error, and no row from i on is in any output file.
C1_FailsAtFirstOutOfOrder ==
    ~force =>
        \A i \in 1..NData :
            IsFirstOutOfOrder(i) =>
                /\ line_count <= i
                /\ line_count = i => pc \in {"check", "failed"}
                /\ pc # "done"
                /\ pc = "failed" =>
                      /\ line_count = i
                      /\ err[1].kind = "KeyError"
                      /\ err[1].field = KeyOf(i)
                /\ \A j \in i..NData : ~Written(DataRow(j))

\* C1 witness: keys [A, A, /, A] in default mode; the run has failed at the
\* 4th row with the third row written.
C1_Witness ==
    /\ ~force
    /\ NData = 4
    /\ AllKeyed(4)
    /\ KeyOf(1) = <<"A">> /\ KeyOf(2) = <<"A">>
    /\ KeyOf(3) = <<"/">> /\ KeyOf(4) = <<"A">>
    /\ Failed("KeyError")
    /\ line_count = 4
    /\ Written(DataRow(3))

\* C2: the number cited by the out-of-order error is the offending row's
\* line number in the input file, the header line counted.  in_pos, the
\* number of lines read, is that line number when the error is raised.
C2_CitesFileLine ==
    Failed("KeyError") => err[1].line = in_pos

\* Data row e is the last row of a maximal run of equal keys, and the first
\* row of the run that ends at e.
IsRunEnd(e) == e \in 1..NData /\ (e = NData \/ KeyOf(e + 1) # KeyOf(e))
RunStart(e) ==
    CHOOSE s \in 1..e :
        /\ \A j \in s..e : KeyOf(j) = KeyOf(e)
        /\ s = 1 \/ KeyOf(s - 1) # KeyOf(e)

\* The last data row with key k, and the rows of k's last contiguous run.
LastIndex(k) ==
    CHOOSE i \in 1..NData :
        KeyOf(i) = k /\ \A j \in (i + 1)..NData : KeyOf(j) # k
LastRun(k) == Rows(RunStart(LastIndex(k)), LastIndex(k))

\* Key k occurs again after a different key.
Reappears(k) == \E i \in 1..NData : Resumes(i) /\ KeyOf(i) = k

\* The data rows of an output file: its lines but a leading header row.
DataRows(file) ==
    IF Truthy(headers) /\ file # << >> /\ file[1] = headers[1]
    THEN Tail(file)
    ELSE file

\* The input can be read to its end: it has the header line header-use asks
\* for and every data row has a key.
Readable == ~(use_headers /\ in_file = << >>) /\ AllKeyed(NData)

\* C3 as claimed: in force mode the run on a readable input never fails and
\* never stops before its end, and at the end the file of every key that
\* reappeared holds the rows of the key's last contiguous run and no other
\* data row.
C3_ForceKeepsLastRun ==
    force =>
        /\ Readable => pc # "failed" /\ (pc = "done" \/ ENABLED Next)
        /\ pc = "done" =>
              \A k \in Keys :
                  Reappears(k) => DataRows(fs[OutFile(k)]) = LastRun(k)

\* No row after the last row of key k has another key with k's file name.
NotOverwritten(k) ==
    \A j \in (LastIndex(k) + 1)..NData : OutFile(KeyOf(j)) # OutFile(k)

\* C3 amended: the same, for the keys whose file name is not used by a
\* different key later in the input.
C3_ForceKeepsLastRunUnlessShared ==
    force =>
        /\ Readable => pc # "failed" /\ (pc = "done" \/ ENABLED Next)
        /\ pc = "done" =>
              \A k \in Keys :
                  Reappears(k) /\ NotOverwritten(k) =>
                      DataRows(fs[OutFile(k)]) = LastRun(k)

\* C3 witness: force mode, keys [A, A, /, A], run complete: the file of A
\* holds the 4th row alone.
C3_Witness ==
    /\ force
    /\ pc = "done"
    /\ NData = 4
    /\ KeyOf(1) = <<"A">> /\ KeyOf(2) = <<"A">>
    /\ KeyOf(3) = <<"/">> /\ KeyOf(4) = <<"A">>
    /\ fs[OutFile(<<"A">>)] = << DataRow(4) >>

\* The data rows of the output files, file by file in the order in which
\* the keys of data rows i, i + 1, ... first appear in the input.
RECURSIVE ConcatFrom(_)
ConcatFrom(i) ==
    IF i > NData THEN << >>
    ELSE (IF \A j \in 1..(i - 1) : KeyOf(j) # KeyOf(i)
          THEN DataRows(fs[OutFile(KeyOf(i))])
          ELSE << >>) \o ConcatFrom(i + 1)

\* C4 as claimed: after a normal run on a pre-sorted input the files,
\* concatenated in first-seen order of their keys, give the input's rows.
C4_ConcatReconstructs ==
    pc = "done" /\ PreSorted => ConcatFrom(1) = Rows(1, NData)

\* Distinct keys of the input have distinct output files.
NoSharedFile ==
    \A i, j \in 1..NData :
        KeyOf(i) # KeyOf(j) => OutFile(KeyOf(i)) # OutFile(KeyOf(j))

\* C4 amended: the same, for inputs whose distinct keys sanitize to distinct
\* file names.
C4_ConcatReconstructsUnlessShared ==
    pc = "done" /\ PreSorted /\ NoSharedFile =>
        ConcatFrom(1) = Rows(1, NData)

\* C4 witness: a complete run over keys [A, A, /, /].
C4_Witness ==
    /\ pc = "done"
    /\ NData = 4
    /\ KeyOf(1) = <<"A">> /\ KeyOf(2) = <<"A">>
    /\ KeyOf(3) = <<"/">> /\ KeyOf(4) = <<"/">>
    /\ Len(fs[OutFile(<<"A">>)]) >= 2
    /\ Len(fs[OutFile(<<"/">>)]) >= 2

\* close_output_file has just run: for a switch of group at line 130, or at
\* the end of input at line 140.
JustClosed == pc \in {"init", "summary"}

\* The last message printed.
LastMsg == msgs[Len(msgs)]

\* Number of handles opened so far for key k.
Opens(k) == Cardinality({ i \in DOMAIN handles : handles[i].key = k })

\* Number of the data rows read so far that have key k.
RowsOfKey(k) == Cardinality({ i \in 1..line_count : HasKey(i) /\ KeyOf(i) = k })

\* C5 as claimed: right after a close that reports a group, the count in
\* the message is the number of data rows in that key's file.
C5_CloseCountIsFileRows ==
    JustClosed /\ Truthy(last_field) =>
        /\ LastMsg.kind = "wrote"
        /\ LastMsg.field = last_field[1]
        /\ LastMsg.n = Len(DataRows(fs[OutFile(last_field[1])]))

\* C5 amended: the count in the message is the number of rows of that key
\* read so far; it is the number of data rows in the key's file when the
\* file has been opened for that key once (force mode has not reopened it).
C5_CloseCountIsRowsOfKey ==
    JustClosed /\ Truthy(last_field) =>
        /\ LastMsg.kind = "wrote"
        /\ LastMsg.field = last_field[1]
        /\ LastMsg.n = RowsOfKey(last_field[1])
        /\ Opens(last_field[1]) = 1 =>
              LastMsg.n = Len(DataRows(fs[OutFile(last_field[1])]))

\* C5 witness: the close of the file of A after two rows of A, on a switch
\* to another key, with header-use enabled.
C5_Witness ==
    /\ pc = "init"
    /\ use_headers
    /\ last_field = Some(<<"A">>)
    /\ Opens(<<"A">>) = 1
    /\ LastMsg.kind = "wrote"
    /\ LastMsg.n = 2
    /\ Len(fs[OutFile(<<"A">>)]) = 3

\* C6: between rows and from the end of the loop on, the counts of the
\* seen-keys mapping add up to the number of data rows read.
C6_CountsSumToRowsRead ==
    pc \in {"loop", "final_close", "summary", "done"} =>
        SumValues(records_by_field) = in_pos - Hdr

\* C6 witness: force mode, a key resumed after another key, three rows read
\* and counted.
C6_Witness ==
    /\ force
    /\ pc = "loop"
    /\ in_pos - Hdr = 3
    /\ Resumes(3)
    /\ Cardinality(DOMAIN records_by_field) = 2

\* Some maximal run of a key whose file is f, with the header row before it,
\* is the content of f.
HeaderThenRun(f) ==
    \E e \in 1..NData :
        /\ IsRunEnd(e)
        /\ OutFile(KeyOf(e)) = f
        /\ fs[f] = << headers[1] >> \o Rows(RunStart(e), e)

C8_NoDestinationReopened ==
    ~force /\ PreSorted =>
        \A i, j \in DOMAIN handles :
            i # j => handles[i].name # handles[j].name

\* C8 amended: in default mode no destination is opened twice for the same
\* key; it is opened again only for a different key that sanitizes to the
\* same file name.
C8_NoDestinationReopenedForKey ==
    ~force =>
        \A i, j \in DOMAIN handles :
            i # j /\ handles[i].name = handles[j].name =>
                /\ handles[i].key # handles[j].key
                /\ protect_filename(handles[i].key) =
                      protect_filename(handles[j].key)

\* C8 witness: a complete default-mode run that opened three destinations.
C8_Witness ==
    /\ ~force
    /\ pc = "done"
    /\ PreSorted
    /\ Len(handles) = 3

\* The handles that are open.
OpenHandles == { i \in DOMAIN handles : handles[i].open }

\* C9: at most one output handle is open; none is open between the close
\* and the open of a group switch, nor after the close at end of input.
C9_AtMostOneOpenHandle ==
    /\ Cardinality(OpenHandles) <= 1
    /\ OpenHandles \subseteq {out_fh}
    /\ pc \in {"init", "summary", "done"} => OpenHandles = {}

\* C9 witness: the second file of a run is open and the first is closed.
C9_Witness ==
    /\ Len(handles) = 2
    /\ ~handles[1].open
    /\ handles[2].open
    /\ pc = "loop"

\* C10: no run is in the failed state with an output handle open.
C10_FailedRunHasNoOpenHandle ==
    pc = "failed" => OpenHandles = {}

\* The positions in msgs of the messages of a kind.
MsgsOfKind(kind) == { i \in DOMAIN msgs : msgs[i].kind = kind }

\* C11: the final summary is printed only by a run that completes normally,
\* once, after every per-group message and with every output handle closed;
\* a run that has failed has printed no summary, takes no further step, and
\* no row after the failing row has been read or written.
C11_SummaryOnlyOnCompletion ==
    /\ MsgsOfKind("total") # {} =>
          /\ pc = "done"
          /\ err = None
          /\ OpenHandles = {}
          /\ MsgsOfKind("total") = {Len(msgs) - 1}
          /\ in_pos = Len(in_file)
    /\ pc = "done" => MsgsOfKind("total") # {}
    /\ pc = "failed" =>
          /\ err # None
          /\ MsgsOfKind("total") = {}
          /\ ~ENABLED Next
          /\ \A j \in 1..NData :
                Hdr + j > in_pos => ~Written(DataRow(j))

\* C11 witness: a run that failed on the second of three data rows, after
\* the first row was written.
C11_Witness ==
    /\ pc = "failed"
    /\ NData = 3
    /\ line_count = 2
    /\ Written(DataRow(1))

\* C12: at normal completion the summary reports the number of distinct
\* output files produced and the number of data rows read.
C12_SummaryCountsFilesAndRows ==
    pc = "done" =>
        /\ msgs[Len(msgs) - 1].kind = "total"
        /\ msgs[Len(msgs) - 1].n = NData
        /\ msgs[Len(msgs) - 1].m = Cardinality(DOMAIN fs)

\* C13: on an input that is the header line alone, with header-use enabled,
\* the run does not fail and does not stop before its end, opens no output
\* file, prints no per-group message, and ends with the summary of 0 records
\* in 0 files.
C13_HeaderOnlyInput ==
    use_headers /\ Len(in_file) = 1 =>
        /\ pc # "failed"
        /\ pc = "done" \/ ENABLED Next
        /\ handles = << >>
        /\ DOMAIN fs = {}
        /\ MsgsOfKind("wrote") = {} /\ MsgsOfKind("writing") = {}
        /\ pc = "done" =>
              msgs = << Msg("total", << >>, 0, 0, << >>),
                        Msg("done", << >>, 0, 0, << >>) >>

\* C13 witness: the completed run on a header-only input.
C13_Witness ==
    /\ use_headers
    /\ in_file = << HeaderRow >>
    /\ pc = "done"
    /\ Len(msgs) = 2

\* The handles that have been closed.
ClosedSoFar == { i \in DOMAIN handles : ~handles[i].open }

\* C14: every close of an output handle prints one per-group message: there
\* are as many such messages as closed handles, and right after the close of
\* the file of a key, whatever the key, the last message carries that key
\* and its count.
C14_EveryCloseReportsItsGroup ==
    /\ Cardinality(MsgsOfKind("wrote")) = Cardinality(ClosedSoFar)
    /\ JustClosed /\ last_field # None =>
          /\ msgs # << >>
          /\ LastMsg.kind = "wrote"
          /\ LastMsg.field = last_field[1]
          /\ LastMsg.n = records_by_field[last_field[1]]

\* C15: when data row i is the first row without a field at the column and
\* the run gets to it, the run fails there with the out-of-range error and
\* takes no further step; row i is not counted, and neither it nor any later
\* row is written.
C15_ShortRowAborts ==
    \A i \in 1..NData :
        ~HasKey(i) /\ AllKeyed(i - 1) =>
            /\ line_count <= i
            /\ pc # "done"
            /\ line_count = i =>
                  /\ pc = "failed"
                  /\ err[1].kind = "IndexError"
                  /\ cols = DataRow(i)
                  /\ SumValues(records_by_field) = i - 1
                  /\ ~ENABLED Next
            /\ \A j \in i..NData :
                  ~Written(DataRow(j))

\* C15 witness: a run that failed on a short third row after two rows were
\* written and counted.
C15_Witness ==
    /\ Failed("IndexError")
    /\ line_count = 3
    /\ ~HasKey(3)
    /\ SumValues(records_by_field) = 2
    /\ Written(DataRow(1)) /\ Written(DataRow(2))

\* The keys of the first n data rows (all of which have a key).
KeysUpTo(n) == { KeyOf(j) : j \in 1..n }

\* C16: in every step the seen-keys mapping keeps its entries and no count
\* decreases; an entry is created only by init_output_file, with count 0,
\* for the key of the current row, which no earlier row has, and after
\* init_output_file the current key has an entry.
C16_SeenKeysOnlyGrow ==
    [][ /\ DOMAIN records_by_field \subseteq DOMAIN records_by_field'
        /\ \A k \in DOMAIN records_by_field :
              records_by_field'[k] >= records_by_field[k]
        /\ \A k \in DOMAIN records_by_field' \ DOMAIN records_by_field :
              /\ pc = "init"
              /\ k = current_field[1]
              /\ records_by_field'[k] = 0
              /\ k \notin KeysUpTo(line_count - 1)
        /\ pc = "init" => current_field[1] \in DOMAIN records_by_field'
      ]_vars

\* C16 witness: force mode has just reopened the file of a key that had one
\* row before; its count is still 1.
C16_Witness ==
    /\ force
    /\ pc = "count"
    /\ current_field # last_field
    /\ Opens(current_field[1]) = 2
    /\ records_by_field[current_field[1]] = 1

\* Number of the first n data rows that start a group: the first row, and
\* every row whose key differs from the key of the row before it.
Switches(n) ==
    Cardinality({ i \in 1..n : i = 1 \/ KeyOf(i) # KeyOf(i - 1) })

\* Number of rows for which the decision to switch or not has been taken and
\* has not ended the run.
Decided ==
    IF pc = "check" \/ pc = "failed" THEN line_count - 1 ELSE line_count

\* C17: the files opened so far are one per row that started a group, and
\* all of them but the last are closed; while a row is about to be written,
\* and after it has been, the last handle is open and is that of the row's
\* key, and the written row is the last line of the handle's file.
C17_SwitchExactlyOnKeyChange ==
    /\ pc \notin {"start", "close", "init"} =>
          Len(handles) = Switches(Decided)
    /\ pc = "close" => Len(handles) = Switches(line_count) - 1
    /\ pc = "init" => Len(handles) = Switches(line_count) - 1
    /\ \A i \in DOMAIN handles : i < Len(handles) => ~handles[i].open
    /\ pc \in {"count", "loop"} /\ line_count > 0 =>
          /\ out_fh = Len(handles)
          /\ handles[out_fh].open
          /\ handles[out_fh].key = current_field[1]
    /\ pc = "loop" /\ line_count > 0 =>
          /\ fs[handles[out_fh].name] # << >>
          /\ fs[handles[out_fh].name][Len(fs[handles[out_fh].name])] = cols

\* C17 witness: keys [A, A, /]: the second row has been appended to the file
\* opened for the first, and the third row has caused a second open.
C17_Witness ==
    /\ pc = "loop"
    /\ line_count = 3
    /\ NData = 3
    /\ KeyOf(1) = <<"A">> /\ KeyOf(2) = <<"A">> /\ KeyOf(3) = <<"/">>
    /\ Len(handles) = 2
    /\ Len(DataRows(fs[OutFile(<<"A">>)])) = 2

\* init_output_file has just run: the row about to be written starts a
\* group.
JustOpened == pc = "count" /\ current_field # last_field

\* The header row occurs in the output files only as a first line.
HeaderOnlyFirst ==
    \A f \in DOMAIN fs : \A n \in 2..Len(fs[f]) : fs[f][n] # headers[1]

\* C18 as claimed: with header-use enabled, right after a file is opened it
\* holds the header row if its key is opened for the first time and nothing
\* if the key was seen before, and the header row occurs in no file but as
\* the first line.
C18_HeaderExactlyOnFirstOpen ==
    use_headers =>
        /\ JustOpened =>
              fs[OutFile(current_field[1])] =
                 IF Opens(current_field[1]) = 1
                 THEN << headers[1] >>
                 ELSE << >>
        /\ HeaderOnlyFirst

\* C18 amended: the same, when the header line is not blank.
C18_NonBlankHeaderExactlyOnFirstOpen ==
    use_headers /\ Truthy(headers) =>
        /\ JustOpened =>
              fs[OutFile(current_field[1])] =
                 IF Opens(current_field[1]) = 1
                 THEN << headers[1] >>
                 ELSE << >>
        /\ HeaderOnlyFirst

\* C18 witness: force mode has reopened the file of a key seen before, and
\* the file is empty; the header is not blank.
C18_Witness ==
    /\ use_headers
    /\ Truthy(headers)
    /\ force
    /\ JustOpened
    /\ Opens(current_field[1]) = 2
    /\ fs[OutFile(current_field[1])] = << >>

\* C19: when a row is about to be written, the current handle exists, is
\* open, and was opened for the row's key and for that key's destination;
\* no write fails on a closed or missing handle; every handle is on the
\* destination of the key it was opened for; every data row in a file has a
\* key whose destination is that file.
C19_RowGoesToHandleOfItsKey ==
    /\ pc = "count" =>
          /\ out_fh \in DOMAIN handles
          /\ handles[out_fh].open
          /\ handles[out_fh].key = current_field[1]
          /\ handles[out_fh].name = OutFile(current_field[1])
    /\ ~Failed("ValueError")
    /\ \A i \in DOMAIN handles : handles[i].name = OutFile(handles[i].key)
    /\ \A f \in DOMAIN fs : \A n \in 1..Len(DataRows(fs[f])) :
          OutFile(DataRows(fs[f])[n][column]) = f

\* C19 witness: force mode, keys [A, /, A]: the third row is about to be
\* written to the third handle, opened for A.
C19_Witness ==
    /\ force
    /\ pc = "count"
    /\ line_count = 3
    /\ KeyOf(1) = <<"A">> /\ KeyOf(2) = <<"/">> /\ KeyOf(3) = <<"A">>
    /\ out_fh = 3
    /\ handles[3].key = <<"A">>

\* C20: the step that raises the out-of-order error changes nothing but the
\* position and the error: files, handles, current handle, messages, counts
\* and the last-field marker are as before.
C20_FailureChangesNothing ==
    [][ pc = "check" /\ pc' = "failed" =>
          /\ err'[1].kind = "KeyError"
          /\ UNCHANGED << fs, handles, out_fh, msgs, records_by_field,
                          last_field >>
      ]_vars

\* C20 witness: default mode, keys [A, /, A], failed at the third row: the
\* file of A still holds its first row, the handle of / is still open, no
\* message reports the group of /.
C20_Witness ==
    /\ ~force
    /\ Failed("KeyError")
    /\ line_count = 3
    /\ KeyOf(1) = <<"A">> /\ KeyOf(2) = <<"/">> /\ KeyOf(3) = <<"A">>
    /\ DataRows(fs[OutFile(<<"A">>)]) = << DataRow(1) >>
    /\ Len(handles) = 2
    /\ handles[2].open
    /\ last_field = Some(<<"/">>)
    /\ records_by_field[<<"A">>] = 1
    /\ \A i \in MsgsOfKind("wrote") : msgs[i].field # <<"/">>

====
